---- MODULE Spec2Model ----
(***************************************************************************)
(* small-asc: the Lucene query translator of small_asc/query.py.           *)
(*                                                                         *)
(* A text is a sequence of one-character strings.  The PEG grammar is      *)
(* translated rule by rule into matchers that return a parse-tree node,    *)
(* and LuceneQueryBuilder into a post-order walk of that tree.  The three  *)
(* public entry points are the actions of the state machine.               *)
(*                                                                         *)
(* Callers that run the entry points concurrently are a second state       *)
(* machine over calls, builders and lucene_query_grammar.                  *)
(*                                                                         *)
(* The Solr client of small_asc/client.py and small_asc/sync_client.py is  *)
(* a third one: search posts a JSON request to a backend and wraps the     *)
(* response in a Results object, which is iterated or paged.               *)
(***************************************************************************)
EXTENDS Integers, Sequences, FiniteSets, TLC

VARIABLES query_text, fields, raw_fields, op, result,
          calls, builders, lucene_query_grammar,
          backend, posted, search_call, results, iterator, nextpage_returns

\* the variables of one caller making one call
call_vars == <<query_text, fields, raw_fields, op, result>>

\* the variables of the concurrent callers
concurrent_vars == <<calls, builders, lucene_query_grammar>>

\* the variables of the Solr client: the backend's result set, the requests
\* posted to it, the search call and its outcome, the Results object, the
\* generator iterating it and what the nextpage() calls returned
client_vars ==
    <<backend, posted, search_call, results, iterator, nextpage_returns>>

vars == <<call_vars, concurrent_vars, client_vars>>

(***************************************************************************)
(* Character classes of the regular expressions in the grammar.            *)
(***************************************************************************)
Lower == {"a", "b", "c", "d", "e", "f", "g", "h", "i", "j", "k", "l", "m",
          "n", "o", "p", "q", "r", "s", "t", "u", "v", "w", "x", "y", "z"}

Upper == {"A", "B", "C", "D", "E", "F", "G", "H", "I", "J", "K", "L", "M",
          "N", "O", "P", "Q", "R", "S", "T", "U", "V", "W", "X", "Y", "Z"}

Digits == {"0", "1", "2", "3", "4", "5", "6", "7", "8", "9"}

\* \s of the whitespace rule, and the characters str.strip() removes
WhitespaceChars == {" ", "\t", "\n", "\r", "\f"}

\* [a-zA-Z_] and [a-zA-Z0-9_] of field_name
FieldStartChars == Lower \cup Upper \cup {"_"}

FieldChars == FieldStartChars \cup Digits

\* \w (restricted to ASCII) and the punctuation of the literal rule
WordChars == Lower \cup Upper \cup Digits \cup {"_"}

LiteralChars == WordChars \cup {".", ",", "!", ":", ";", "@", "^", "-", "/", "|"}

OperatorChars == {"+", "-"}

(***************************************************************************)
(* Parse-tree nodes and match results (parsimonious Node / match).  A rule *)
(* is an operator of the text s and the position i it is tried at.         *)
(***************************************************************************)
NoNode == [name |-> "", text |-> <<>>, children |-> <<>>]

Fail == [ok |-> FALSE, end |-> 0, node |-> NoNode]

\* a node named name spanning s[i .. e-1]
MkNode(name, s, i, e, kids) ==
    [name |-> name, text |-> SubSeq(s, i, e - 1), children |-> kids]

Ok(name, s, i, e, kids) ==
    [ok |-> TRUE, end |-> e, node |-> MkNode(name, s, i, e, kids)]

RECURSIVE RunEnd(_, _, _)
\* the position after the longest run of characters of class from i
RunEnd(class, s, i) ==
    IF i <= Len(s) /\ s[i] \in class THEN RunEnd(class, s, i + 1) ELSE i

\* a quoted literal of the grammar
Lit(name, str, s, i) ==
    IF i + Len(str) - 1 <= Len(s) /\ SubSeq(s, i, i + Len(str) - 1) = str
    THEN Ok(name, s, i, i + Len(str), <<>>)
    ELSE Fail

\* a regular expression class+ : e is where the run of the class ends
ClassPlus(name, s, i, e) ==
    IF e > i THEN Ok(name, s, i, e, <<>>) ELSE Fail

\* a regular expression matching one character of class
ClassOne(name, class, s, i) ==
    IF i <= Len(s) /\ s[i] \in class THEN Ok(name, s, i, i + 1, <<>>) ELSE Fail

\* expr? : the anonymous node around the match, or an empty one
Optional(s, i, r) ==
    IF r.ok THEN Ok("", s, i, r.end, <<r.node>>) ELSE Ok("", s, i, i, <<>>)

\* OneOf, the ordered choice a / b / ... : the node named name around the
\* first alternative that matches (Fail fills the unused places)
OneOf(name, s, i, r1, r2, r3, r4, r5) ==
    CASE r1.ok -> Ok(name, s, i, r1.end, <<r1.node>>)
      [] ~r1.ok /\ r2.ok -> Ok(name, s, i, r2.end, <<r2.node>>)
      [] ~r1.ok /\ ~r2.ok /\ r3.ok -> Ok(name, s, i, r3.end, <<r3.node>>)
      [] ~r1.ok /\ ~r2.ok /\ ~r3.ok /\ r4.ok -> Ok(name, s, i, r4.end, <<r4.node>>)
      [] ~r1.ok /\ ~r2.ok /\ ~r3.ok /\ ~r4.ok /\ r5.ok ->
            Ok(name, s, i, r5.end, <<r5.node>>)
      [] OTHER -> Fail

\* Sequence, a b ... : matched left to right.  The match so far is the node
\* named name over the elements matched, and the position reached.
Start(name, i) ==
    [ok |-> TRUE, end |-> i,
     node |-> [name |-> name, text |-> <<>>, children |-> <<>>]]

Add(st, r) ==
    IF r.ok
    THEN [ok |-> TRUE, end |-> r.end,
          node |-> [name |-> st.node.name,
                    text |-> st.node.text \o r.node.text,
                    children |-> Append(st.node.children, r.node)]]
    ELSE Fail

\* the next element of the sequence is rule R
Then(R(_, _), s, st) == IF st.ok THEN Add(st, R(s, st.end)) ELSE Fail

\* the next element of the sequence is the quoted literal str
ThenLit(str, s, st) == IF st.ok THEN Add(st, Lit("", str, s, st.end)) ELSE Fail

\* the next element of the sequence is R?
ThenOptional(R(_, _), s, st) ==
    IF st.ok THEN Add(st, Optional(s, st.end, R(s, st.end))) ELSE Fail

(***************************************************************************)
(* lucene_query_grammar, one operator per rule.                            *)
(***************************************************************************)
RECURSIVE query(_, _)

\* whitespace = ~r"\s+"
whitespace(s, i) == ClassPlus("whitespace", s, i, RunEnd(WhitespaceChars, s, i))

\* digit = ~r"[0-9]"
digit(s, i) == ClassOne("digit", Digits, s, i)

\* optional_operator = ~r"[+\-]"
optional_operator(s, i) == ClassOne("optional_operator", OperatorChars, s, i)

\* (\.[0-9]+)? of number, from the end e1 of the integer part: e2 is where
\* the digits after a point end
number_fraction(s, i, e1, e2) ==
    IF e1 <= Len(s) /\ s[e1] = "." /\ e2 > e1 + 1
    THEN Ok("number", s, i, e2, <<>>)
    ELSE Ok("number", s, i, e1, <<>>)

\* [0-9]+ of number, e1 is where the digits end
number_integer(s, i, e1) ==
    IF e1 = i THEN Fail ELSE number_fraction(s, i, e1, RunEnd(Digits, s, e1 + 1))

\* number = ~r"[0-9]+(\.[0-9]+)?"
number(s, i) == number_integer(s, i, RunEnd(Digits, s, i))

\* boost = "^" number
boost(s, i) == Then(number, s, ThenLit(<<"^">>, s, Start("boost", i)))

\* fuzziness = "~" digit?
fuzziness(s, i) ==
    ThenOptional(digit, s, ThenLit(<<"~">>, s, Start("fuzziness", i)))

\* wildcard_multiple = "*"
wildcard_multiple(s, i) == Lit("wildcard_multiple", <<"*">>, s, i)

\* wildcard_single = "?"
wildcard_single(s, i) == Lit("wildcard_single", <<"?">>, s, i)

\* wildcard = wildcard_multiple / wildcard_single
wildcard(s, i) ==
    OneOf("wildcard", s, i,
        wildcard_multiple(s, i), wildcard_single(s, i), Fail, Fail, Fail)

\* literal = ~r"[\w.,!:;@\^\-/\|]+"
literal(s, i) == ClassPlus("literal", s, i, RunEnd(LiteralChars, s, i))

\* (wildcard / fuzziness) of term
term_marker(s, i) ==
    OneOf("", s, i, wildcard(s, i), fuzziness(s, i), Fail, Fail, Fail)

\* term with a second marker allowed: literal (wildcard / fuzziness)?
\* (wildcard / fuzziness)? boost?
term_two_markers(s, i) ==
    ThenOptional(boost, s,
    ThenOptional(term_marker, s,
    ThenOptional(term_marker, s,
    Then(literal, s, Start("term", i)))))

\* term = literal (wildcard / fuzziness)? boost?
term(s, i) ==
    ThenOptional(boost, s,
    ThenOptional(term_marker, s,
    Then(literal, s, Start("term", i))))

\* (whitespace literal) of phrase
phrase_item(s, i) == Then(literal, s, Then(whitespace, s, Start("", i)))

RECURSIVE phrase_more(_, _)
\* one more (whitespace literal) if r matched
phrase_more_step(s, st, r) ==
    IF r.ok THEN phrase_more(s, Add(st, r)) ELSE st

\* (whitespace literal)* from the match st on
phrase_more(s, st) == phrase_more_step(s, st, phrase_item(s, st.end))

\* (whitespace literal)* of phrase
phrase_items(s, i) == phrase_more(s, Start("", i))

\* (boost / fuzziness) of phrase
phrase_suffix(s, i) ==
    OneOf("", s, i, boost(s, i), fuzziness(s, i), Fail, Fail, Fail)

\* phrase = '"' literal (whitespace literal)* '"' (boost / fuzziness)?
phrase(s, i) ==
    ThenOptional(phrase_suffix, s,
    ThenLit(<<"\"">>, s,
    Then(phrase_items, s,
    Then(literal, s,
    ThenLit(<<"\"">>, s, Start("phrase", i))))))

\* term_or_phrase = term / phrase
term_or_phrase(s, i) ==
    OneOf("term_or_phrase", s, i, term(s, i), phrase(s, i), Fail, Fail, Fail)

\* range_value = wildcard_multiple / term
range_value(s, i) ==
    OneOf("range_value", s, i,
        wildcard_multiple(s, i), term(s, i), Fail, Fail, Fail)

\* open range_value whitespace "TO" whitespace range_value close
range_body(name, open, close, s, i) ==
    ThenLit(<<close>>, s,
    Then(range_value, s,
    Then(whitespace, s,
    ThenLit(<<"T", "O">>, s,
    Then(whitespace, s,
    Then(range_value, s,
    ThenLit(<<open>>, s, Start(name, i))))))))

\* range_inclusive = "[" range_value whitespace "TO" whitespace range_value "]"
range_inclusive(s, i) == range_body("range_inclusive", "[", "]", s, i)

\* range_exclusive = "{" range_value whitespace "TO" whitespace range_value "}"
range_exclusive(s, i) == range_body("range_exclusive", "{", "}", s, i)

\* range_clause = range_inclusive / range_exclusive
range_clause(s, i) ==
    OneOf("range_clause", s, i,
        range_inclusive(s, i), range_exclusive(s, i), Fail, Fail, Fail)

\* field_name = ~r"[a-zA-Z_][a-zA-Z0-9_]*"
field_name(s, i) ==
    IF i <= Len(s) /\ s[i] \in FieldStartChars
    THEN Ok("field_name", s, i, RunEnd(FieldChars, s, i + 1), <<>>)
    ELSE Fail

\* !~r"." : nothing that "." matches follows; "." matches all but a newline
not_any_char(s, i) ==
    IF i > Len(s) \/ s[i] = "\n" THEN Ok("", s, i, i, <<>>) ELSE Fail

\* empty_field_clause = field_name ":" !~r"."
empty_field_clause(s, i) ==
    Then(not_any_char, s,
    ThenLit(<<":">>, s,
    Then(field_name, s, Start("empty_field_clause", i))))

\* boolean_clause = "(" query ")"
boolean_clause(s, i) ==
    ThenLit(<<")">>, s,
    Then(query, s,
    ThenLit(<<"(">>, s, Start("boolean_clause", i))))

\* (term / phrase / range_clause / boolean_clause) of fielded_clause
fielded_value(s, i) ==
    OneOf("", s, i,
        term(s, i), phrase(s, i), range_clause(s, i), boolean_clause(s, i), Fail)

\* fielded_clause = field_name ":" (term / phrase / range_clause / boolean_clause)
fielded_clause(s, i) ==
    Then(fielded_value, s,
    ThenLit(<<":">>, s,
    Then(field_name, s, Start("fielded_clause", i))))

\* (empty_field_clause / fielded_clause / term_or_phrase / boolean_clause /
\*  range_clause) of clause
clause_body(s, i) ==
    OneOf("", s, i,
        empty_field_clause(s, i), fielded_clause(s, i), term_or_phrase(s, i),
        boolean_clause(s, i), range_clause(s, i))

\* clause = optional_operator? (empty_field_clause / fielded_clause /
\*          term_or_phrase / boolean_clause / range_clause)
clause(s, i) ==
    Then(clause_body, s,
    ThenOptional(optional_operator, s, Start("clause", i)))

\* (whitespace clause) of query
query_item(s, i) == Then(clause, s, Then(whitespace, s, Start("", i)))

RECURSIVE query_more(_, _)
\* one more (whitespace clause) if r matched
query_more_step(s, st, r) ==
    IF r.ok THEN query_more(s, Add(st, r)) ELSE st

\* (whitespace clause)* from the match st on
query_more(s, st) == query_more_step(s, st, query_item(s, st.end))

\* (whitespace clause)* of query
query_items(s, i) == query_more(s, Start("", i))

\* query = clause (whitespace clause)*
query(s, i) == Then(query_items, s, Then(clause, s, Start("query", i)))

\* Grammar.match in place of Grammar.parse: a match of a prefix is enough
parsed_prefix(s, r) == IF r.ok THEN r ELSE Fail

\* the match r of the default rule consumed all of the text
parsed_all(s, r) == IF r.ok /\ r.end = Len(s) + 1 THEN r ELSE Fail

\* Grammar.parse: the default rule at the start, and all of the text consumed;
\* anything else is a ParseError
grammar_parse(s) == parsed_all(s, query(s, 1))

(***************************************************************************)
(* LuceneQueryBuilder: the tree is walked post-order; a visit yields the   *)
(* rebuilt text, or the exception a visit method raised with the field     *)
(* name it carries.                                                        *)
(***************************************************************************)
Built(txt) == [err |-> "", text |-> txt]

Raised(e, field) == [err |-> e, text |-> field]

RECURSIVE join(_)
\* "".join(visited_children)
join(parts) ==
    IF parts = <<>> THEN <<>> ELSE Head(parts) \o join(Tail(parts))

\* the argument None, and a dict or set that was passed
None == [present |-> FALSE, value |-> {}]

Some(v) == [present |-> TRUE, value |-> v]

\* Python's truth value of a dict | None argument
truthy(d) == d.present /\ DOMAIN d.value # {}

\* __init__: self.raw_field_names = raw_field_names or set()
raw_field_names_of(raw) == IF raw.present THEN raw.value ELSE {}

\* generic_visit: "".join(visited_children) or node.text
generic_visit(node, visited_children) ==
    IF join(visited_children) # <<>> THEN join(visited_children) ELSE node.text

\* visit_query, visit_clause, visit_term, visit_phrase, visit_boost, visit_fuzziness
visit_joined(node, visited_children) == join(visited_children)

\* visit_literal, visit_optional_operator, visit_wildcard, visit_number
visit_text(node, visited_children) == node.text

\* visit_whitespace joining the clauses with the default operator
visit_whitespace_operator(node, visited_children) == <<" ", "A", "N", "D", " ">>

\* visit_whitespace keeping the whitespace that matched
visit_whitespace_verbatim(node, visited_children) == node.text

\* visit_whitespace
visit_whitespace(node, visited_children) == <<" ">>

\* visit_empty_field_clause
visit_empty_field_clause(node, visited_children) ==
    Raised("EmptyFieldQueryError", visited_children[1])

\* visit_fielded_clause with the lookup order reversed: a raw field passes
\* through even when the mapping renames it
visit_fielded_clause_raw_first(node, visited_children, replacement_field_names, raw) ==
    LET field == visited_children[1]
        term_or_phrase_ == visited_children[3]
    IN IF ~truthy(replacement_field_names)
       THEN Built(field \o <<":">> \o term_or_phrase_)
       ELSE IF field \notin DOMAIN replacement_field_names.value
               /\ field \notin raw_field_names_of(raw)
            THEN Raised("FieldNotFoundError", field)
            ELSE LET field_name_ ==
                         IF field \in raw_field_names_of(raw)
                         THEN field
                         ELSE replacement_field_names.value[field]
                 IN Built(field_name_ \o <<":">> \o term_or_phrase_)

\* visit_fielded_clause
visit_fielded_clause(node, visited_children, replacement_field_names, raw) ==
    LET field == visited_children[1]
        term_or_phrase_ == visited_children[3]
    IN IF ~truthy(replacement_field_names)
       THEN Built(field \o <<":">> \o term_or_phrase_)
       ELSE IF field \notin DOMAIN replacement_field_names.value
               /\ field \notin raw_field_names_of(raw)
            THEN Raised("FieldNotFoundError", field)
            ELSE LET field_name_ ==
                         IF field \in DOMAIN replacement_field_names.value
                         THEN replacement_field_names.value[field]
                         ELSE field
                 IN Built(field_name_ \o <<":">> \o term_or_phrase_)

JoinedRules == {"query", "clause", "term", "phrase", "boost", "fuzziness"}

TextRules == {"literal", "optional_operator", "wildcard", "number"}

\* a dispatch that validates the field of an empty-field clause against the
\* mapping and the raw allow-set before it reports the clause as empty
visit_method_validated(node, visited_children, replacement_field_names, raw) ==
    IF node.name = "empty_field_clause"
    THEN IF /\ truthy(replacement_field_names)
            /\ visited_children[1] \notin DOMAIN replacement_field_names.value
            /\ visited_children[1] \notin raw_field_names_of(raw)
         THEN Raised("FieldNotFoundError", visited_children[1])
         ELSE visit_empty_field_clause(node, visited_children)
    ELSE IF node.name = "fielded_clause"
    THEN visit_fielded_clause(node, visited_children, replacement_field_names, raw)
    ELSE IF node.name = "whitespace"
    THEN Built(visit_whitespace(node, visited_children))
    ELSE IF node.name \in JoinedRules
    THEN Built(visit_joined(node, visited_children))
    ELSE IF node.name \in TextRules
    THEN Built(visit_text(node, visited_children))
    ELSE Built(generic_visit(node, visited_children))

\* NodeVisitor.visit's dispatch on node.expr_name once the children are visited
visit_method(node, visited_children, replacement_field_names, raw) ==
    IF node.name = "empty_field_clause"
    THEN visit_empty_field_clause(node, visited_children)
    ELSE IF node.name = "fielded_clause"
    THEN visit_fielded_clause(node, visited_children, replacement_field_names, raw)
    ELSE IF node.name = "whitespace"
    THEN Built(visit_whitespace(node, visited_children))
    ELSE IF node.name \in JoinedRules
    THEN Built(visit_joined(node, visited_children))
    ELSE IF node.name \in TextRules
    THEN Built(visit_text(node, visited_children))
    ELSE Built(generic_visit(node, visited_children))

RECURSIVE visit(_, _, _)
RECURSIVE visit_from(_, _, _, _, _)
\* the visit v of child k: an exception ends the walk, as FieldNotFoundError
\* and EmptyFieldQueryError are unwrapped_exceptions; else the next child
visit_next(node, k, visited_children, v, replacement_field_names, raw) ==
    IF v.err # "" THEN v
    ELSE visit_from(node, k + 1, Append(visited_children, v.text),
                    replacement_field_names, raw)

\* [self.visit(n) for n in node] from child k on, then the method of the
\* node's rule
visit_from(node, k, visited_children, replacement_field_names, raw) ==
    IF k > Len(node.children)
    THEN visit_method(node, visited_children, replacement_field_names, raw)
    ELSE visit_next(node, k, visited_children,
                    visit(node.children[k], replacement_field_names, raw),
                    replacement_field_names, raw)

\* NodeVisitor.visit: children first, left to right
visit(node, replacement_field_names, raw) ==
    visit_from(node, 1, <<>>, replacement_field_names, raw)

(***************************************************************************)
(* The public operations.  An outcome is a return value or an exception.   *)
(***************************************************************************)
Return(v) == [kind |-> "return", value |-> v]

Raise(e, v) == [kind |-> e, value |-> v]

RECURSIVE lstrip(_)
lstrip(s) ==
    IF s # <<>> /\ Head(s) \in WhitespaceChars THEN lstrip(Tail(s)) ELSE s

RECURSIVE rstrip(_)
rstrip(s) ==
    IF s # <<>> /\ s[Len(s)] \in WhitespaceChars
    THEN rstrip(SubSeq(s, 1, Len(s) - 1)) ELSE s

\* str.strip()
strip(s) == rstrip(lstrip(s))

\* _run_grammar
\* _run_grammar that rebuilds whatever the default rule matched before
\* looking whether all of the text was parsed
run_grammar_visit_first(q, flds, raw) ==
    LET matched == query(strip(q), 1)
        response == visit(matched.node, flds, raw)
    IN IF matched.ok /\ response.err # "" THEN Raise(response.err, response.text)
       ELSE IF ~grammar_parse(strip(q)).ok THEN Raise("QueryParseError", <<>>)
       ELSE Return(response.text)

run_grammar(q, flds, raw) ==
    LET tree == grammar_parse(strip(q))
        response == visit(tree.node, flds, raw)
    IN IF ~tree.ok THEN Raise("QueryParseError", <<>>)
       ELSE IF response.err # "" THEN Raise(response.err, response.text)
       ELSE Return(response.text)

\* parse_query
parse_query(q) == run_grammar(q, None, None)

\* parse_with_field_replacements
parse_with_field_replacements(q, flds, raw) == run_grammar(q, flds, raw)

\* validate_query without the except clause: the ParseError escapes
validate_query_uncaught(q) ==
    IF grammar_parse(strip(q)).ok THEN Return(TRUE) ELSE Raise("ParseError", <<>>)

\* validate_query: only the grammar is run, and any exception gives False
validate_query(q) ==
    IF grammar_parse(strip(q)).ok THEN Return(TRUE) ELSE Return(FALSE)

(***************************************************************************)
(* The state machine: a caller holds a query text and calls one of the     *)
(* public operations on it.  op is the operation called ("none" before the *)
(* call), result its outcome, fields and raw_fields the mapping arguments  *)
(* the call was given.  Every call is independent of every other, so a     *)
(* behaviour is one text and one call.                                     *)
(***************************************************************************)
MaxLen == 5

MaxWs == 5

MaxSyntax == 5

MaxMarkers == 5

MaxGroups == 1

MaxClauses == 3

\* the number of groups "(" a text opens
Groups(t) == Cardinality({k \in DOMAIN t : t[k] = "("})

RECURSIVE Texts(_, _)
\* the texts made of at most n pieces drawn from chunks, with at most
\* MaxGroups groups
Texts(chunks, n) ==
    IF n = 0 THEN {<<>>}
    ELSE LET shorter == Texts(chunks, n - 1)
         IN shorter \cup { t \in { u \o c : u \in shorter, c \in chunks } :
                               Groups(t) <= MaxGroups }

\* pieces of queries with field names, groups and whitespace
FieldChunks == {<<"a">>, <<"b">>, <<":">>, <<"\n">>, <<"(">>, <<")">>}

\* pieces of queries with whitespace between clauses, in phrases and in ranges
WhitespaceChunks ==
    {<<"a">>, <<" ">>, <<"\n">>, <<"\"", "a">>, <<"a", "\"">>,
     <<"[", "a">>, <<"T", "O">>, <<"a", "]">>}

\* pieces of queries with quotes, parentheses and field names
SyntaxChunks == {<<"a">>, <<":">>, <<" ">>, <<"\"">>, <<"(">>, <<")">>}

\* pieces of queries with wildcard, fuzziness and boost markers
MarkerChunks == {<<"a">>, <<"1">>, <<"*">>, <<"?">>, <<"~">>, <<"^">>, <<" ">>}

\* pieces of queries with fielded clauses, one after another and one in the
\* value of another, and fields followed by no value
ClauseChunks ==
    {<<"a", ":", "a">>, <<"c", ":", "a">>, <<"b", ":", "(">>, <<"b", ":">>,
     <<")">>, <<"\n">>}

\* the (field mapping, raw allow-set) arguments a caller passes
Configs ==
    {<<Some(<<>>), Some({<<"b">>})>>,
     <<Some(<<"a">> :> <<"c">>), None>>,
     <<Some(<<"a">> :> <<"c">>), Some({<<"b">>})>>,
     <<Some((<<"a">> :> <<"c">>) @@ (<<"b">> :> <<"a">>)), Some({<<"b">>})>>}

\* the arguments and locals of a caller that is not in a call
NoCall ==
    [pc |-> "idle", op |-> "none", query |-> <<>>, fields |-> None,
     raw_fields |-> None, tree |-> Fail, overlapped |-> FALSE,
     result |-> [kind |-> "none", value |-> <<>>]]

\* a LuceneQueryBuilder instance: __init__ keeps the two arguments
LuceneQueryBuilder(replacement_field_names, raw_field_names) ==
    [replacement_field_names |-> replacement_field_names,
     raw_field_names |-> raw_field_names]

NumCallers == 2

Callers == 1..NumCallers

\* the module-level grammar object, whose default rule is the first one
Grammar == [default_rule |-> "query"]

\* no caller is in a call
NoCalls ==
    /\ calls = [c \in Callers |-> NoCall]
    /\ builders = [c \in Callers |-> LuceneQueryBuilder(None, None)]
    /\ lucene_query_grammar = Grammar

\* no Results object: search has not returned one
NoResults ==
    [docs |-> <<>>, hits |-> 0, nextCursorMark |-> 0, current_page |-> 0,
     num_pages |-> 0, query |-> <<>>, is_cursor |-> FALSE, idx |-> 0,
     page_idx |-> 0]

\* search has not been called
NoSearch == [query |-> <<>>, cursor |-> FALSE, outcome |-> "none"]

\* the client has done nothing, against a backend holding hits documents
\* served rows to a page
NoClient(hits, rows) ==
    /\ backend = [hits |-> hits, rows |-> rows]
    /\ posted = <<>>
    /\ search_call = NoSearch
    /\ results = NoResults
    /\ iterator = [pc |-> "none", yielded |-> <<>>]
    /\ nextpage_returns = <<>>

InitOver(texts) ==
    /\ query_text \in texts
    /\ fields = None
    /\ raw_fields = None
    /\ op = "none"
    /\ result = [kind |-> "none", value |-> <<>>]
    /\ NoCalls
    /\ NoClient(0, 1)

Init == InitOver(Texts(FieldChunks, MaxLen))

ParseQuery ==
    /\ op = "none"
    /\ op' = "parse_query"
    /\ result' = parse_query(query_text)
    /\ UNCHANGED <<query_text, fields, raw_fields, concurrent_vars, client_vars>>

ParseWithFieldReplacements ==
    \E c \in Configs :
        /\ op = "none"
        /\ op' = "parse_with_field_replacements"
        /\ fields' = c[1]
        /\ raw_fields' = c[2]
        /\ result' = parse_with_field_replacements(query_text, c[1], c[2])
        /\ UNCHANGED <<query_text, concurrent_vars, client_vars>>

ValidateQuery ==
    /\ op = "none"
    /\ op' = "validate_query"
    /\ result' = validate_query(query_text)
    /\ UNCHANGED <<query_text, fields, raw_fields, concurrent_vars, client_vars>>

Next == ParseQuery \/ ParseWithFieldReplacements \/ ValidateQuery

\* callers that pass no field mapping
NextPlain == ParseQuery \/ ValidateQuery

Spec == Init /\ [][Next]_vars

SpecWhitespace == InitOver(Texts(WhitespaceChunks, MaxWs)) /\ [][NextPlain]_vars

SpecSyntax == InitOver(Texts(SyntaxChunks, MaxSyntax)) /\ [][NextPlain]_vars

SpecMarkers == InitOver(Texts(MarkerChunks, MaxMarkers)) /\ [][NextPlain]_vars

SpecClauses == InitOver(Texts(ClauseChunks, MaxClauses)) /\ [][Next]_vars

(***************************************************************************)
(* Concurrent callers.  Each caller makes one call, which runs in the      *)
(* steps of _run_grammar (or validate_query): the grammar is run on the    *)
(* stripped text, a LuceneQueryBuilder is constructed, the tree is         *)
(* visited.  The steps of different callers interleave freely.  tree and   *)
(* the builder are locals of the call; lucene_query_grammar is the one     *)
(* module-level object every call uses.                                    *)
(***************************************************************************)
\* the texts concurrent callers pass
ConcurrentTexts == {<<"b", ":", "a">>, <<"a", ":">>, <<"(">>}

\* the (field mapping, raw allow-set) arguments concurrent callers pass
ConcurrentConfigs ==
    {<<Some(<<"a">> :> <<"c">>), None>>,
     <<Some(<<"a">> :> <<"c">>), Some({<<"b">>})>>}

Operations == {"parse_query", "parse_with_field_replacements", "validate_query"}

\* one builder instance at module level, used by every call
string_builder_shared(c) == 1

\* the builder instance the local string_builder of caller c's call names
string_builder(c) == c

\* the call has started and not yet ended
InFlight(call) == call.pc \notin {"idle", "done"}

\* caller c calls operation o on text q with the arguments cfg
Started(c, o, q, cfg) ==
    [d \in Callers |->
        IF d = c
        THEN [NoCall EXCEPT
                 !.pc = "called", !.op = o, !.query = q,
                 !.fields =
                     IF o = "parse_with_field_replacements" THEN cfg[1] ELSE None,
                 !.raw_fields =
                     IF o = "parse_with_field_replacements" THEN cfg[2] ELSE None,
                 !.overlapped = \E e \in Callers \ {c} : InFlight(calls[e])]
        ELSE IF InFlight(calls[d]) THEN [calls[d] EXCEPT !.overlapped = TRUE]
        ELSE calls[d]]

Call(c) ==
    /\ calls[c].pc = "idle"
    /\ \E o \in Operations, q \in ConcurrentTexts, cfg \in ConcurrentConfigs :
           calls' = Started(c, o, q, cfg)
    /\ UNCHANGED <<builders, lucene_query_grammar, call_vars, client_vars>>

\* the call of caller c after lucene_query_grammar.parse(query.strip()) gave
\* tree: validate_query ends here, _run_grammar ends here on a ParseError
Parsed(call, tree) ==
    IF call.op = "validate_query"
    THEN [call EXCEPT !.pc = "done",
                      !.result = IF tree.ok THEN Return(TRUE) ELSE Return(FALSE)]
    ELSE IF ~tree.ok
    THEN [call EXCEPT !.pc = "done", !.result = Raise("QueryParseError", <<>>)]
    ELSE [call EXCEPT !.pc = "parsed", !.tree = tree]

Parse(c) ==
    /\ calls[c].pc = "called"
    /\ calls' = [calls EXCEPT ![c] = Parsed(calls[c], grammar_parse(strip(calls[c].query)))]
    /\ UNCHANGED <<builders, lucene_query_grammar, call_vars, client_vars>>

\* string_builder = LuceneQueryBuilder(replacement_field_names=fields,
\*                                     raw_field_names=raw_fields)
Build(c) ==
    /\ calls[c].pc = "parsed"
    /\ builders' = [builders EXCEPT ![string_builder(c)] =
                       LuceneQueryBuilder(calls[c].fields, calls[c].raw_fields)]
    /\ calls' = [calls EXCEPT ![c].pc = "built"]
    /\ UNCHANGED <<lucene_query_grammar, call_vars, client_vars>>

\* the call of caller c after builder visited its tree
Visited(call, response) ==
    [call EXCEPT !.pc = "done",
                 !.result = IF response.err # ""
                            THEN Raise(response.err, response.text)
                            ELSE Return(response.text)]

\* response = string_builder.visit(tree)
Visit(c) ==
    /\ calls[c].pc = "built"
    /\ calls' = [calls EXCEPT ![c] =
                    Visited(calls[c],
                            visit(calls[c].tree.node,
                                  builders[string_builder(c)].replacement_field_names,
                                  builders[string_builder(c)].raw_field_names))]
    /\ UNCHANGED <<builders, lucene_query_grammar, call_vars, client_vars>>

NextConcurrent ==
    \E c \in Callers : Call(c) \/ Parse(c) \/ Build(c) \/ Visit(c)

SpecConcurrent == InitOver({<<>>}) /\ [][NextConcurrent]_vars

(***************************************************************************)
(* The Solr client.  A JSON request is a dictionary: a function whose      *)
(* domain is the keys present.  Sort statements are sequences of           *)
(* characters, as the query texts are.  A cursor mark is the position the  *)
(* backend resumes from; "*" is the position before the first document.    *)
(***************************************************************************)
EmptyDict == <<>>

Has(d, k) == k \in DOMAIN d

\* d[k] = v, d.update({k: v})
Put(d, k, v) == (k :> v) @@ d

\* d.get(k, default)
get(d, k, default) == IF Has(d, k) THEN d[k] ELSE default

\* sub in s, on strings
contains(sub, s) ==
    \E i \in 1..(Len(s) - Len(sub) + 1) : SubSeq(s, i, i + Len(sub) - 1) = sub

\* the cursor mark "*"
Star == 0

id_asc == <<"i", "d", " ", "a", "s", "c">>
space_id_asc == <<" ">> \o id_asc
comma_id_asc == <<",", " ">> \o id_asc

Min(a, b) == IF a < b THEN a ELSE b

\* math.ceil(a / b) for b > 0
ceil_div(a, b) == (a + b - 1) \div b

\* where the backend starts the page a request asks for
start_of(request) ==
    LET params == get(request, "params", EmptyDict)
    IN IF Has(params, "cursorMark") THEN params["cursorMark"]
       ELSE IF Has(request, "offset") THEN request["offset"]
       ELSE IF Has(params, "start") THEN params["start"]
       ELSE 0

\* the JSON the backend answers a request with: the page of documents
\* starting where the request says, the count of all matching documents,
\* and the mark after the page's last document
post_data_to_solr(request) ==
    LET start == Min(start_of(request), backend.hits)
        end == Min(start + backend.rows, backend.hits)
    IN [docs |-> [i \in 1..(end - start) |-> start + i],
        numFound |-> backend.hits,
        nextCursorMark |-> end]

set_instance_values(r, raw_response) ==
    LET docslen == Len(raw_response.docs)
        rows == IF docslen > 0 THEN docslen ELSE 1
    IN [r EXCEPT !.docs = raw_response.docs,
                 !.hits = raw_response.numFound,
                 !.nextCursorMark = raw_response.nextCursorMark,
                 !.current_page = 1,
                 !.num_pages = ceil_div(raw_response.numFound, rows)]

\* Results(result_json, url, query): url is a non-empty string when given,
\* and a query that is not given is None
Results(result_json, url, json_query) ==
    set_instance_values(
        [NoResults EXCEPT !.query = json_query,
                          !.is_cursor = url /\ DOMAIN json_query # {},
                          !.idx = 0,
                          !.page_idx = 0],
        result_json)

\* the cursor block of search looking for 'offset' only, not for 'start'
cursor_query_offset_only(json_query) ==
    IF Has(json_query, "offset")
    THEN [raised |-> TRUE, query |-> json_query]
    ELSE LET with_params == IF ~Has(json_query, "params")
                            THEN Put(json_query, "params", EmptyDict)
                            ELSE json_query
             marked == Put(with_params, "params",
                           Put(with_params["params"], "cursorMark", Star))
         IN IF ~Has(marked, "sort") /\ ~Has(marked["params"], "sort")
            THEN [raised |-> FALSE, query |-> Put(marked, "sort", id_asc)]
            ELSE IF Has(marked, "sort")
                    /\ ~contains(space_id_asc, marked["sort"])
            THEN [raised |-> FALSE,
                  query |-> Put(marked, "sort",
                                marked["sort"] \o comma_id_asc)]
            ELSE [raised |-> TRUE, query |-> marked]

\* the cursor block of search: the query it leaves, and whether it raised
cursor_query(json_query) ==
    IF Has(json_query, "offset")
       \/ Has(get(json_query, "params", EmptyDict), "start")
    THEN [raised |-> TRUE, query |-> json_query]
    ELSE LET with_params == IF ~Has(json_query, "params")
                            THEN Put(json_query, "params", EmptyDict)
                            ELSE json_query
             marked == Put(with_params, "params",
                           Put(with_params["params"], "cursorMark", Star))
         IN IF ~Has(marked, "sort") /\ ~Has(marked["params"], "sort")
            THEN [raised |-> FALSE, query |-> Put(marked, "sort", id_asc)]
            ELSE IF Has(marked, "sort")
                    /\ ~contains(space_id_asc, marked["sort"])
            THEN [raised |-> FALSE,
                  query |-> Put(marked, "sort",
                                marked["sort"] \o comma_id_asc)]
            ELSE [raised |-> TRUE, query |-> marked]

\* what search does with a query: the request it posts, if it does not raise
search_query(json_query, cursor) ==
    IF cursor THEN cursor_query(json_query)
    ELSE [raised |-> FALSE, query |-> json_query]

\* the generator of __aiter__ and __iter__, resumed until it yields again
\* or ends: the Results it leaves, the requests it posted, what it yielded
resumed(r) ==
    IF iterator.pc # "yielded" THEN r
    ELSE IF r.is_cursor
    THEN [r EXCEPT !.page_idx = @ + 1, !.idx = @ + 1]
    ELSE [r EXCEPT !.page_idx = @ + 1]

\* a fetch that sends the request again without the latest mark
fetched_same_mark(r) ==
    LET request == r.query
        page == set_instance_values([r EXCEPT !.page_idx = 0,
                                              !.query = request],
                                    post_data_to_solr(request))
    IN [page EXCEPT !.current_page = @ + 1]

fetched(r) ==
    LET request == Put(r.query, "params",
                       Put(get(r.query, "params", EmptyDict),
                           "cursorMark", r.nextCursorMark))
        page == set_instance_values([r EXCEPT !.page_idx = 0,
                                              !.query = request],
                                    post_data_to_solr(request))
    IN [page EXCEPT !.current_page = @ + 1]

iterate(r) ==
    IF ~r.is_cursor
    THEN IF r.page_idx < Len(r.docs)
         THEN [results |-> r, posted |-> <<>>,
               yielded |-> <<r.docs[r.page_idx + 1]>>, pc |-> "yielded"]
         ELSE [results |-> r, posted |-> <<>>, yielded |-> <<>>,
               pc |-> "ended"]
    ELSE IF ~(r.idx < r.hits)
    THEN [results |-> r, posted |-> <<>>, yielded |-> <<>>, pc |-> "ended"]
    ELSE IF r.page_idx < Len(r.docs)
    THEN [results |-> r, posted |-> <<>>,
          yielded |-> <<r.docs[r.page_idx + 1]>>, pc |-> "yielded"]
    ELSE LET page == fetched(r)
         IN IF page.docs # <<>>
            THEN [results |-> page, posted |-> <<page.query>>,
                  yielded |-> <<page.docs[page.page_idx + 1]>>,
                  pc |-> "yielded"]
            ELSE [results |-> page, posted |-> <<page.query>>,
                  yielded |-> <<>>, pc |-> "ended"]

\* nextpage(): the Results it leaves, the requests it posted, what it returns
nextpage(r) ==
    IF ~r.is_cursor
    THEN [results |-> r, posted |-> <<>>, returns |-> FALSE]
    ELSE IF r.current_page < r.num_pages
    THEN LET request == IF Has(r.query, "params")
                        THEN Put(r.query, "params",
                                 Put(r.query["params"], "cursorMark",
                                     r.nextCursorMark))
                        ELSE r.query
             page == set_instance_values([r EXCEPT !.query = request],
                                         post_data_to_solr(request))
         IN [results |-> [page EXCEPT !.current_page = @ + 1],
             posted |-> <<request>>, returns |-> TRUE]
    ELSE [results |-> r, posted |-> <<>>, returns |-> FALSE]

\* the most documents a backend holds, the most it serves to a page, and
\* the most nextpage() calls made on one Results
MaxHits == 5
MaxRows == 3
MaxCalls == 4

\* the queries given to search
Sorts ==
    {id_asc, <<"a", " ", "a", "s", "c">>,
     <<"a", " ", "a", "s", "c">> \o comma_id_asc, <<"x", "_">> \o id_asc}

Sorted(json_query) ==
    {json_query} \cup { Put(json_query, "sort", sort) : sort \in Sorts }

WithParams(json_query) ==
    {json_query, Put(json_query, "params", EmptyDict),
     Put(json_query, "params", [start |-> 1]),
     Put(json_query, "params", [sort |-> id_asc])}

WithOffset(json_query) == {json_query, Put(json_query, "offset", 1)}

PlainQueries == {[query |-> "*:*"], [query |-> "*:*", limit |-> 2]}

SearchQueries ==
    UNION { UNION { WithOffset(p) : p \in WithParams(s) } :
            s \in Sorted([query |-> "*:*"]) }

InitClient ==
    /\ query_text = <<>>
    /\ fields = None
    /\ raw_fields = None
    /\ op = "none"
    /\ result = [kind |-> "none", value |-> <<>>]
    /\ NoCalls
    /\ \E hits \in 0..MaxHits, rows \in 1..MaxRows : NoClient(hits, rows)

\* search(query, cursor)
Search(queries) ==
    /\ search_call.outcome = "none"
    /\ \E json_query \in queries, cursor \in BOOLEAN :
        LET request == search_query(json_query, cursor)
        IN IF request.raised
           THEN /\ search_call' = [query |-> json_query, cursor |-> cursor,
                                   outcome |-> "SolrError"]
                /\ UNCHANGED <<posted, results>>
           ELSE /\ search_call' = [query |-> json_query, cursor |-> cursor,
                                   outcome |-> "returned"]
                /\ posted' = Append(posted, request.query)
                /\ results' = Results(post_data_to_solr(request.query),
                                      cursor,
                                      IF cursor THEN request.query
                                      ELSE EmptyDict)
    /\ UNCHANGED <<backend, iterator, nextpage_returns,
                   call_vars, concurrent_vars>>

\* next() on the generator of __aiter__ or __iter__
IterNext ==
    /\ search_call.outcome = "returned"
    /\ iterator.pc # "ended"
    /\ LET step == iterate(resumed(results))
       IN /\ results' = step.results
          /\ posted' = posted \o step.posted
          /\ iterator' = [pc |-> step.pc,
                          yielded |-> iterator.yielded \o step.yielded]
    /\ UNCHANGED <<backend, search_call, nextpage_returns,
                   call_vars, concurrent_vars>>

\* nextpage()
NextPage ==
    /\ search_call.outcome = "returned"
    /\ Len(nextpage_returns) < MaxCalls
    /\ LET step == nextpage(results)
       IN /\ results' = step.results
          /\ posted' = posted \o step.posted
          /\ nextpage_returns' = Append(nextpage_returns, step.returns)
    /\ UNCHANGED <<backend, search_call, iterator,
                   call_vars, concurrent_vars>>

NextSearch == Search(SearchQueries)

NextIterate == Search(PlainQueries) \/ IterNext

NextPaging == Search(PlainQueries) \/ NextPage

SpecSearch == InitClient /\ [][NextSearch]_vars

SpecIterate == InitClient /\ [][NextIterate]_vars /\ WF_vars(NextIterate)

SpecPaging == InitClient /\ [][NextPaging]_vars

(***************************************************************************)
(* Definitions the properties are stated with.                             *)
(***************************************************************************)
\* the parse tree of the call's text
Tree == grammar_parse(strip(query_text))

RECURSIVE NodesNamed(_, _)
\* the nodes of rule name in the tree below node
NodesNamed(node, name) ==
    (IF node.name = name THEN {node} ELSE {})
    \cup UNION { NodesNamed(node.children[k], name) : k \in 1..Len(node.children) }

\* the field names of the fielded clauses of the tree
FieldedNames(node) ==
    { n.children[1].text : n \in NodesNamed(node, "fielded_clause") }

\* the values of a mapping
MappedValues(m) == { m.value[k] : k \in DOMAIN m.value }

\* the number of characters of chars before position p of s
CountBefore(s, chars, p) == Cardinality({k \in 1..(p - 1) : s[k] \in chars})

\* position p of s is where a clause starts: at the start of the text, after
\* whitespace or an opening parenthesis, or after a +/- operator there,
\* outside phrases and ranges
ClauseStart(s, p) ==
    LET after(k) == k = 1 \/ s[k - 1] \in WhitespaceChars \cup {"("}
    IN /\ after(p) \/ (p > 1 /\ s[p - 1] \in OperatorChars /\ after(p - 1))
       /\ CountBefore(s, {"\""}, p) % 2 = 0
       /\ CountBefore(s, {"[", "{"}, p) = CountBefore(s, {"]", "}"}, p)

\* the positions of s where a clause starts with a name and a colon
FieldPositions(s) ==
    { p \in 1..Len(s) :
        /\ ClauseStart(s, p)
        /\ s[p] \in FieldStartChars
        /\ RunEnd(FieldChars, s, p + 1) <= Len(s)
        /\ s[RunEnd(FieldChars, s, p + 1)] = ":" }

\* the name that starts at p
NameAt(s, p) == SubSeq(s, p, RunEnd(FieldChars, s, p + 1) - 1)

\* the names that directly precede a colon at the start of a clause of s
FieldNamesIn(s) == { NameAt(s, p) : p \in FieldPositions(s) }

\* the positions of s where a name and a colon are followed by no value:
\* by the end of the text, whitespace or a closing parenthesis
EmptyFieldPositions(s) ==
    { p \in FieldPositions(s) :
        LET e == RunEnd(FieldChars, s, p + 1) + 1
        IN e > Len(s) \/ s[e] \in WhitespaceChars \cup {")"} }

\* the name a fielded clause gets: the mapped value of a key, else itself
Renamed(field, m) ==
    IF field \in DOMAIN m.value THEN m.value[field] ELSE field

RECURSIVE Substituted(_, _)
RECURSIVE SubstitutedAll(_, _, _)
\* the text of node with every fielded clause's name renamed by m and the
\* rest as parse_query rebuilds it
Substituted(node, m) ==
    IF NodesNamed(node, "fielded_clause") = {}
    THEN visit(node, None, None).text
    ELSE IF node.name = "fielded_clause"
    THEN Renamed(node.children[1].text, m) \o <<":">> \o Substituted(node.children[3], m)
    ELSE SubstitutedAll(node.children, 1, m)

SubstitutedAll(kids, k, m) ==
    IF k > Len(kids) THEN <<>>
    ELSE Substituted(kids[k], m) \o SubstitutedAll(kids, k + 1, m)

Called(name) == op = name

Returned == result.kind = "return"

(***************************************************************************)
(* Field validation and renaming.                                          *)
(***************************************************************************)
\* C1: when parse_with_field_replacements is given a field mapping and
\* returns a string, every name that directly precedes a colon at the start
\* of a clause of that string is a value of the mapping or a member of the
\* raw allow-set.
C1_OutputFieldsAllowed ==
    (Called("parse_with_field_replacements") /\ fields.present /\ Returned)
        => FieldNamesIn(result.value)
               \subseteq MappedValues(fields) \cup raw_field_names_of(raw_fields)

\* C2: a syntactically valid query with a fielded clause whose name is
\* neither a key of the supplied mapping nor in the raw allow-set makes
\* parse_with_field_replacements raise FieldNotFoundError, whatever mapping
\* is supplied (an empty one with a raw allow-set too) and at any nesting
\* depth.  Stated for queries without an empty-field clause, which raise
\* an error of their own.
C2_UnlistedFieldRaises ==
    (/\ Called("parse_with_field_replacements")
     /\ fields.present
     /\ Tree.ok
     /\ NodesNamed(Tree.node, "empty_field_clause") = {}
     /\ \E f \in FieldedNames(Tree.node) :
            f \notin DOMAIN fields.value /\ f \notin raw_field_names_of(raw_fields))
        => result.kind = "FieldNotFoundError"

\* C3: when parse_with_field_replacements accepts a query, each fielded
\* clause field:value comes out as mapping[field]:value if field is a key of
\* the mapping (also when it is in the raw allow-set as well) and unchanged
\* if it is only in the raw allow-set; values and all other clauses are what
\* parse_query produces.
C3_FieldsSubstituted ==
    (Called("parse_with_field_replacements") /\ Returned)
        => result.value = Substituted(Tree.node, fields)

\* C3 witness: an accepted query with a group and a fielded clause whose name
\* is both a key and a raw field, and whose output differs from parse_query's
C3_Witness ==
    /\ Called("parse_with_field_replacements")
    /\ Returned
    /\ fields.present
    /\ \E f \in FieldedNames(Tree.node) :
           f \in DOMAIN fields.value /\ f \in raw_field_names_of(raw_fields)
    /\ NodesNamed(Tree.node, "boolean_clause") # {}
    /\ result.value # parse_query(query_text).value

(***************************************************************************)
(* validate_query.                                                         *)
(***************************************************************************)
\* C4: validate_query(q) is true if and only if parse_query(q) does not
\* raise.
C4_ValidateIffParses ==
    Called("validate_query")
        => (result.value = TRUE <=> parse_query(query_text).kind = "return")

\* C5: validate_query never raises: it returns a boolean for every input,
\* and false whenever the grammar fails inside it.
C5_ValidateNeverRaises ==
    Called("validate_query")
        => /\ Returned
           /\ result.value \in BOOLEAN
           /\ ~Tree.ok => result.value = FALSE

\* C5 witness: validate_query called on a text the grammar rejects
C5_Witness ==
    Called("validate_query") /\ ~Tree.ok /\ strip(query_text) # <<>>

(***************************************************************************)
(* Empty field clauses.                                                    *)
(***************************************************************************)
\* C6: a query with a clause made of a field name and a colon and no value
\* after it (at the end of the input, before whitespace and further
\* clauses, or last in a parenthesized group) makes parse_query raise
\* EmptyFieldQueryError with that field name; the clause is never taken as
\* a bare term and returned.  Stated for queries that are not rejected as
\* syntax errors.
C6_EmptyFieldRaises ==
    (/\ Called("parse_query")
     /\ EmptyFieldPositions(strip(query_text)) # {}
     /\ result.kind # "QueryParseError")
        => /\ result.kind = "EmptyFieldQueryError"
           /\ result.value \in
                  { NameAt(strip(query_text), p) :
                        p \in EmptyFieldPositions(strip(query_text)) }

(***************************************************************************)
(* The rebuilt text.                                                       *)
(***************************************************************************)
\* C7: parse_query is idempotent: when parse_query(q) returns a string,
\* parse_query of that string returns too, and returns the same string.
C7_Idempotent ==
    (Called("parse_query") /\ Returned)
        => parse_query(result.value) = Return(result.value)

\* C7 witness: parse_query returned a text that differs from the one it was
\* given, for a query with a fielded clause and whitespace between clauses
C7_Witness ==
    /\ Called("parse_query")
    /\ Returned
    /\ result.value # query_text
    /\ NodesNamed(Tree.node, "fielded_clause") # {}
    /\ \E w \in NodesNamed(Tree.node, "whitespace") : w.text # <<" ">>

RECURSIVE Collapse(_)
\* s with every maximal run of whitespace replaced by one space
Collapse(s) ==
    IF s = <<>> THEN <<>>
    ELSE IF Head(s) \in WhitespaceChars THEN <<" ">> \o Collapse(lstrip(Tail(s)))
    ELSE <<Head(s)>> \o Collapse(Tail(s))

\* C8: when parse_query accepts q, the result is q without its leading and
\* trailing whitespace and with every maximal run of whitespace (between
\* clauses, in phrases, in ranges) replaced by one space, every other
\* character kept in order; a query already in that form comes back
\* unchanged, and nothing is inserted between adjacent clauses.
C8_WhitespaceCollapsed ==
    (Called("parse_query") /\ Returned)
        => /\ result.value = Collapse(strip(query_text))
           /\ Collapse(strip(query_text)) = query_text => result.value = query_text

\* C8 witness: an accepted query with whitespace around it and a run of
\* several whitespace characters inside a phrase
C8_Witness ==
    /\ Called("parse_query")
    /\ Returned
    /\ strip(query_text) # query_text
    /\ \E ph \in NodesNamed(Tree.node, "phrase") :
           \E w \in NodesNamed(ph, "whitespace") : Len(w.text) > 1

(***************************************************************************)
(* Syntax errors.                                                          *)
(***************************************************************************)
\* the number of characters of chars in s
Count(s, chars) == CountBefore(s, chars, Len(s) + 1)

\* s has a double quote without its partner
UnbalancedQuote(s) == Count(s, {"\""}) % 2 = 1

\* s has a parenthesis without its partner: one closed before it is opened,
\* or one never closed
UnbalancedParenthesis(s) ==
    \/ \E p \in 1..(Len(s) + 1) : CountBefore(s, {")"}, p) > CountBefore(s, {"("}, p)
    \/ Count(s, {"("}) # Count(s, {")"})

\* the clauses of s end before s does
TrailingInput(s) == query(s, 1).ok /\ query(s, 1).end <= Len(s)

\* C9: parsing is all-or-nothing: on an input with an unbalanced double
\* quote, an unbalanced parenthesis or trailing input that no clause
\* consumes, parse_query raises QueryParseError with no partial result and
\* validate_query returns false.
C9_AllOrNothing ==
    (\/ UnbalancedQuote(strip(query_text))
     \/ UnbalancedParenthesis(strip(query_text))
     \/ TrailingInput(strip(query_text)))
        => /\ Called("parse_query") => result = Raise("QueryParseError", <<>>)
           /\ Called("validate_query") => result = Return(FALSE)

\* C9 witness: parse_query called on clauses followed by a closing
\* parenthesis that nothing opened
C9_Witness ==
    /\ Called("parse_query")
    /\ TrailingInput(strip(query_text))
    /\ UnbalancedParenthesis(strip(query_text))

(***************************************************************************)
(* Wildcard and fuzziness markers.                                         *)
(***************************************************************************)
MarkerChars == {"*", "?", "~"}

\* the position after the marker that starts at p: "*", "?", or "~" with
\* its optional digit
MarkerEnd(s, p) ==
    IF s[p] = "~" /\ p + 1 <= Len(s) /\ s[p + 1] \in Digits THEN p + 2 ELSE p + 1

\* a literal of s is followed by a marker and then by one more
TwoMarkers(s) ==
    \E p \in 1..(Len(s) - 2) :
        /\ s[p] \in LiteralChars
        /\ s[p + 1] \in MarkerChars
        /\ MarkerEnd(s, p + 1) <= Len(s)
        /\ s[MarkerEnd(s, p + 1)] \in MarkerChars

\* s is a literal followed by exactly one marker
OneMarker(s) ==
    /\ RunEnd(LiteralChars, s, 1) > 1
    /\ RunEnd(LiteralChars, s, 1) <= Len(s)
    /\ s[RunEnd(LiteralChars, s, 1)] \in MarkerChars
    /\ MarkerEnd(s, RunEnd(LiteralChars, s, 1)) = Len(s) + 1

\* C10: a wildcard or fuzziness marker binds to one adjacent symbol: a
\* literal followed by two or more of "*", "?" or "~" (with its optional
\* digit) makes parse_query raise QueryParseError, and the literal followed
\* by exactly one such marker is accepted and returned unchanged.
C10_SingleMarker ==
    Called("parse_query")
        => /\ TwoMarkers(query_text) => result = Raise("QueryParseError", <<>>)
           /\ OneMarker(query_text) => result = Return(query_text)

\* C10 witness: parse_query called on a literal with a fuzziness marker and
\* its digit, followed by one more marker
C10_Witness ==
    /\ Called("parse_query")
    /\ TwoMarkers(query_text)
    /\ \E p \in 1..(Len(query_text) - 2) :
           /\ query_text[p] = "~"
           /\ query_text[p + 1] \in Digits
           /\ query_text[p + 2] \in MarkerChars

(***************************************************************************)
(* Concurrent calls.                                                       *)
(***************************************************************************)
\* the outcome of the call when it runs alone on its arguments
Alone(call) ==
    CASE call.op = "parse_query" -> parse_query(call.query)
      [] call.op = "parse_with_field_replacements" ->
            parse_with_field_replacements(call.query, call.fields, call.raw_fields)
      [] call.op = "validate_query" -> validate_query(call.query)

\* C11: concurrent calls never interfere: in every interleaving of
\* parse_query, parse_with_field_replacements and validate_query calls that
\* share the module-level grammar, a call that has ended has the result or
\* error it produces when run alone on the same arguments, and no step
\* changes the grammar, a caller's text, mapping or raw allow-set.
C11_NoInterference ==
    [][/\ lucene_query_grammar' = lucene_query_grammar
       /\ \A c \in Callers :
            /\ calls[c].pc # "idle"
                 => /\ calls'[c].query = calls[c].query
                    /\ calls'[c].fields = calls[c].fields
                    /\ calls'[c].raw_fields = calls[c].raw_fields
            /\ calls'[c].pc = "done" => calls'[c].result = Alone(calls'[c])]_vars

\* C11 witness: a parse_with_field_replacements call has returned a string
\* after running while another caller, with a different mapping or raw
\* allow-set, was between constructing its builder and visiting
C11_Witness ==
    \E c, d \in Callers :
        /\ calls[c].pc = "done"
        /\ calls[c].overlapped
        /\ calls[c].op = "parse_with_field_replacements"
        /\ calls[c].result.kind = "return"
        /\ calls[d].pc = "built"
        /\ calls[d].overlapped
        /\ <<calls[d].fields, calls[d].raw_fields>>
               # <<calls[c].fields, calls[c].raw_fields>>

(***************************************************************************)
(* C12: iterating a cursor result set over a backend that holds H          *)
(* documents yields each of the H documents exactly once, in backend       *)
(* order; the first request carries the mark "*" and every later one the   *)
(* mark after the last document of the page before it, and is sent only    *)
(* once all documents of the pages before it were yielded; the iteration   *)
(* ends, and has then yielded all H documents.  Iterating a result set     *)
(* that is not a cursor yields the documents of the first page only and    *)
(* sends no request after the search's.                                    *)
(***************************************************************************)
FirstPage == [i \in 1..Min(backend.rows, backend.hits) |-> i]

C12_CursorIteration ==
    /\ [](search_call.outcome = "returned" =>
            /\ \A i \in 1..Len(iterator.yielded) : iterator.yielded[i] = i
            /\ IF search_call.cursor
               THEN /\ Len(iterator.yielded) <= backend.hits
                    /\ iterator.pc = "ended" =>
                           Len(iterator.yielded) = backend.hits
                    /\ \A j \in 1..Len(posted) :
                          /\ posted[j]["params"]["cursorMark"]
                                = (j - 1) * backend.rows
                          /\ j > 1 => (j - 1) * backend.rows
                                        < Len(iterator.yielded)
               ELSE /\ Len(iterator.yielded) <= Len(FirstPage)
                    /\ iterator.pc = "ended" =>
                           iterator.yielded = FirstPage
                    /\ Len(posted) = 1)
    /\ <>(iterator.pc = "ended")

\* a cursor iteration that ended after three or more pages, the last of
\* them shorter than the others
C12_Witness ==
    /\ search_call.cursor
    /\ iterator.pc = "ended"
    /\ Len(posted) >= 3
    /\ Len(iterator.yielded) = backend.hits
    /\ backend.hits % backend.rows # 0

(***************************************************************************)
(* C13: on a cursor result set over a backend result of N pages, the       *)
(* nextpage() calls return True for the first N - 1 of them and False for  *)
(* every later one; only the calls that return True send a request, and    *)
(* current_page is the number of pages fetched.  On a result set that is   *)
(* not a cursor every call returns False and none sends a request.         *)
(***************************************************************************)
\* the pages of the backend's result; an empty result is one empty page
BackendPages ==
    IF backend.hits = 0 THEN 1 ELSE ceil_div(backend.hits, backend.rows)

C13_PagingTerminates ==
    search_call.outcome = "returned" =>
        IF search_call.cursor
        THEN /\ \A k \in 1..Len(nextpage_returns) :
                   nextpage_returns[k] = (k <= BackendPages - 1)
             /\ Len(posted) = 1 + Min(Len(nextpage_returns), BackendPages - 1)
             /\ results.current_page = Len(posted)
        ELSE /\ \A k \in 1..Len(nextpage_returns) : ~nextpage_returns[k]
             /\ Len(posted) = 1

(***************************************************************************)
(* C14: for every text that is not syntactically valid, parse_query and    *)
(* parse_with_field_replacements raise QueryParseError, and never          *)
(* EmptyFieldQueryError or FieldNotFoundError, also when the text holds a  *)
(* clause whose field is not allowed or a field followed by no value.      *)
(***************************************************************************)
C14_SyntaxErrorFirst ==
    (/\ Called("parse_query") \/ Called("parse_with_field_replacements")
     /\ ~Tree.ok)
        => result.kind = "QueryParseError"

\* an invalid text with a field that the mapping and the raw allow-set do
\* not allow, and one with a field followed by no value
C14_Witness ==
    /\ Called("parse_with_field_replacements")
    /\ fields.present
    /\ ~Tree.ok
    /\ result.kind = "QueryParseError"
    /\ \/ \E f \in FieldNamesIn(strip(query_text)) :
              /\ f \notin DOMAIN fields.value
              /\ f \notin raw_field_names_of(raw_fields)
       \/ EmptyFieldPositions(strip(query_text)) # {}

(***************************************************************************)
(* C15: a query with an empty-field clause raises EmptyFieldQueryError     *)
(* from parse_query, and from parse_with_field_replacements whatever the   *)
(* mapping and the raw allow-set say about the clause's field.  Stated     *)
(* for queries whose fielded clauses are all allowed, as a fielded clause  *)
(* that is not allowed raises an error of its own.                         *)
(***************************************************************************)
Allowed(f) ==
    f \in DOMAIN fields.value \/ f \in raw_field_names_of(raw_fields)

EmptyFieldNames ==
    { n.children[1].text : n \in NodesNamed(Tree.node, "empty_field_clause") }

C15_EmptyFieldWhateverMapping ==
    (Tree.ok /\ EmptyFieldNames # {}) =>
        /\ Called("parse_query") => result.kind = "EmptyFieldQueryError"
        /\ (/\ Called("parse_with_field_replacements")
            /\ \A f \in FieldedNames(Tree.node) : Allowed(f))
               => /\ result.kind = "EmptyFieldQueryError"
                  /\ result.value \in EmptyFieldNames

\* an empty-field clause on a field that is neither a key of a non-empty
\* mapping nor in the raw allow-set, after another clause
C15_Witness ==
    /\ Called("parse_with_field_replacements")
    /\ Tree.ok
    /\ DOMAIN fields.value # {}
    /\ \E f \in EmptyFieldNames : ~Allowed(f)
    /\ Cardinality(NodesNamed(Tree.node, "clause")) > 1
    /\ \A f \in FieldedNames(Tree.node) : Allowed(f)
    /\ result.kind = "EmptyFieldQueryError"

(***************************************************************************)
(* C16: search(cursor=True) on a query with neither 'offset' nor           *)
(* params['start'] posts the query with params['cursorMark'] = "*" and a   *)
(* sort that orders by a standalone "id asc": "id asc" when the query has  *)
(* no sort, the given sort when it orders by id asc already, and the given *)
(* sort with ", id asc" appended otherwise.  Stated for queries whose      *)
(* sort, if they have one, is the query's 'sort' and not one of its        *)
(* params.                                                                 *)
(***************************************************************************)
\* the sort statement orders by id asc: "id asc" stands at its start or
\* after a space or a comma
OrdersById(sort) ==
    \E i \in 1..(Len(sort) - Len(id_asc) + 1) :
        /\ SubSeq(sort, i, i + Len(id_asc) - 1) = id_asc
        /\ i = 1 \/ sort[i - 1] \in {" ", ","}

HasOffset(json_query) ==
    Has(json_query, "offset")
    \/ Has(get(json_query, "params", EmptyDict), "start")

C16_CursorQuerySorted ==
    (/\ search_call.outcome # "none"
     /\ search_call.cursor
     /\ ~HasOffset(search_call.query)
     /\ ~Has(get(search_call.query, "params", EmptyDict), "sort"))
        => /\ search_call.outcome = "returned"
           /\ Len(posted) = 1
           /\ posted[1]["params"]["cursorMark"] = Star
           /\ Has(posted[1], "sort")
           /\ IF Has(search_call.query, "sort")
              THEN IF OrdersById(search_call.query["sort"])
                   THEN posted[1]["sort"] = search_call.query["sort"]
                   ELSE posted[1]["sort"]
                            = search_call.query["sort"] \o comma_id_asc
              ELSE posted[1]["sort"] = id_asc

(***************************************************************************)
(* C17: search(cursor=True) on a query that has 'offset', or whose params  *)
(* have 'start', raises SolrError, posts nothing and returns no Results;   *)
(* search(cursor=False) posts the query as it was given.                   *)
(***************************************************************************)
C17_CursorRejectsOffset ==
    search_call.outcome # "none" =>
        IF search_call.cursor
        THEN HasOffset(search_call.query)
                 => /\ search_call.outcome = "SolrError"
                    /\ posted = <<>>
                    /\ results = NoResults
        ELSE /\ search_call.outcome = "returned"
             /\ posted = <<search_call.query>>

\* a cursor search refused for the 'start' of its params alone
C17_Witness ==
    /\ search_call.cursor
    /\ ~Has(search_call.query, "offset")
    /\ Has(get(search_call.query, "params", EmptyDict), "start")
    /\ search_call.outcome = "SolrError"
    /\ posted = <<>>

(***************************************************************************)
(* C18: when a syntactically valid query has several offending clauses -   *)
(* fielded clauses whose field is neither a key of the mapping nor in the  *)
(* raw allow-set, and empty-field clauses - parse_with_field_replacements  *)
(* raises the error of the one that starts first in the text, and returns  *)
(* nothing.  Stated for mappings with at least one key.                    *)
(***************************************************************************)
RECURSIVE Before(_, _)
\* the length of the text of the first k - 1 of the children
Before(children, k) ==
    IF k = 1 THEN 0
    ELSE Before(children, k - 1) + Len(children[k - 1].text)

RECURSIVE Offences(_, _)
\* the offending clauses of the tree of a text that starts at position start
Offences(node, start) ==
    (IF node.name = "empty_field_clause"
     THEN {[at |-> start, kind |-> "EmptyFieldQueryError",
            field |-> node.children[1].text]}
     ELSE IF node.name = "fielded_clause" /\ ~Allowed(node.children[1].text)
     THEN {[at |-> start, kind |-> "FieldNotFoundError",
            field |-> node.children[1].text]}
     ELSE {})
    \cup UNION { Offences(node.children[k], start + Before(node.children, k)) :
                 k \in 1..Len(node.children) }

Leftmost(offences) == CHOOSE o \in offences : \A p \in offences : o.at <= p.at

C18_LeftmostErrorRaised ==
    (/\ Called("parse_with_field_replacements")
     /\ DOMAIN fields.value # {}
     /\ Tree.ok
     /\ Cardinality(Offences(Tree.node, 1)) > 1)
        => result = Raise(Leftmost(Offences(Tree.node, 1)).kind,
                          Leftmost(Offences(Tree.node, 1)).field)

====
